---- MODULE Spec2Model ----
(***************************************************************************)
(* A model of prototype/app.py: the Transaction value and its JSON form,   *)
(* TransactionRepository (load_all / save_all / append), ReportService     *)
(* (monthly_totals) and ExpenseService (add_expense and its validators).   *)
(*                                                                         *)
(* Strings the code parses (amounts, dates, categories, notes, type        *)
(* labels) are tuples of one-character strings, so that strip(), upper(),  *)
(* Decimal(), str(Decimal), date.fromisoformat() and date.isoformat() are  *)
(* computed, not assumed.  Modelled subset of the decimal grammar:         *)
(* [sign] digits [. digits], [sign] . digits, NaN, Infinity (no exponent   *)
(* part, no underscores); of the date grammar: YYYY-MM-DD.                 *)
(***************************************************************************)
EXTENDS Integers, Sequences, FiniteSets, TLC

\* Body applied to the value of v: v is evaluated once, as an argument or a
\* local variable is in the code
With(v, Body(_)) == CHOOSE r \in {Body(x) : x \in {v}} : TRUE

(***************************************************************************)
(* Characters, str.strip(), digits                                         *)
(***************************************************************************)
Digits == <<"0", "1", "2", "3", "4", "5", "6", "7", "8", "9">>

IsDigit(c) == \E i \in 1..10 : Digits[i] = c

DigitVal(c) == (CHOOSE i \in 1..10 : Digits[i] = c) - 1

IsSpace(c) == c = " "

AllDigits(s) == \A i \in 1..Len(s) : IsDigit(s[i])

\* str.strip(): what lies between the first and the last non-blank character
Strip(s) ==
    With({i \in 1..Len(s) : ~IsSpace(s[i])}, LAMBDA ns :
        IF ns = {} THEN <<>>
        ELSE SubSeq(s, CHOOSE i \in ns : \A j \in ns : i <= j,
                       CHOOSE i \in ns : \A j \in ns : i >= j))

\* the number the first k digits of s write
RECURSIVE ToNatTo(_, _)
ToNatTo(s, k) == IF k = 0 THEN 0 ELSE 10 * ToNatTo(s, k - 1) + DigitVal(s[k])

ToNat(s) == ToNatTo(s, Len(s))

RECURSIVE NatDigits(_)
NatDigits(n) ==
    IF n < 10 THEN <<Digits[n + 1]>>
    ELSE With(n \div 10, LAMBDA q : NatDigits(q)) \o <<Digits[(n % 10) + 1]>>

RECURSIVE Pow10(_)
Pow10(k) == IF k = 0 THEN 1 ELSE 10 * Pow10(k - 1)

Rep(c, n) == [i \in 1..n |-> c]

\* f"{n:0wd}": the digits of n, zero-padded on the left to width w
ZeroPad(n, w) ==
    With(NatDigits(n), LAMBDA d : IF Len(d) >= w THEN d ELSE Rep("0", w - Len(d)) \o d)

(***************************************************************************)
(* decimal.Decimal: a value is [special, sign, coeff, exp], standing for   *)
(* (-1)^sign * coeff * 10^exp when special = "".                           *)
(***************************************************************************)
Finite(sign, coeff, exp) == [special |-> "", sign |-> sign, coeff |-> coeff, exp |-> exp]

NaNDec(sign) == [special |-> "NaN", sign |-> sign, coeff |-> 0, exp |-> 0]

InfDec(sign) == [special |-> "Infinity", sign |-> sign, coeff |-> 0, exp |-> 0]

\* stands for Decimal(text) raising InvalidOperation (ConversionSyntax)
BadDec == [special |-> "ConversionSyntax", sign |-> 0, coeff |-> 0, exp |-> 0]

DotPositions(s) == {i \in 1..Len(s) : s[i] = "."}

\* digits [. digits] or . digits, split at position dot
ParseDigits(sign, s, dot) ==
    With(SubSeq(s, 1, dot - 1), LAMBDA ip :
    With(SubSeq(s, dot + 1, Len(s)), LAMBDA fp :
        IF AllDigits(ip) /\ AllDigits(fp) /\ Len(ip) + Len(fp) >= 1
        THEN Finite(sign, ToNat(ip \o fp), 0 - Len(fp))
        ELSE BadDec))

\* the part of a decimal literal after its sign
ParseUnsigned(sign, s) ==
    IF s = <<"N", "a", "N">> THEN NaNDec(sign)
    ELSE IF s = <<"I", "n", "f", "i", "n", "i", "t", "y">> THEN InfDec(sign)
    ELSE With(DotPositions(s), LAMBDA dots :
             IF Cardinality(dots) > 1 THEN BadDec
             ELSE IF dots = {} THEN ParseDigits(sign, s, Len(s) + 1)
             ELSE With(CHOOSE i \in dots : TRUE, LAMBDA dot : ParseDigits(sign, s, dot)))

\* Decimal(text): the constructor strips surrounding whitespace itself
ParseDecimal(text) ==
    With(Strip(text), LAMBDA s :
        IF s = <<>> THEN BadDec
        ELSE IF Head(s) = "-" THEN With(Tail(s), LAMBDA t : ParseUnsigned(1, t))
        ELSE IF Head(s) = "+" THEN With(Tail(s), LAMBDA t : ParseUnsigned(0, t))
        ELSE ParseUnsigned(0, s))

\* the digits of coefficient ds with fl of them after the point
PlainDigits(ds, fl) ==
    With(IF Len(ds) > fl THEN ds ELSE Rep("0", fl + 1 - Len(ds)) \o ds, LAMBDA padded :
        IF fl = 0 THEN padded
        ELSE SubSeq(padded, 1, Len(padded) - fl) \o <<".">>
                 \o SubSeq(padded, Len(padded) - fl + 1, Len(padded)))

\* str(Decimal) for exp <= 0 and adjusted exponent >= -6 (plain notation)
DecStr(d) ==
    (IF d.sign = 1 THEN <<"-">> ELSE <<>>)
        \o (IF d.special = "NaN" THEN <<"N", "a", "N">>
            ELSE IF d.special = "Infinity" THEN <<"I", "n", "f", "i", "n", "i", "t", "y">>
            ELSE With(NatDigits(d.coeff), LAMBDA ds : PlainDigits(ds, 0 - d.exp)))

\* the signed coefficient of d at exponent e (e <= d.exp)
ScaledTo(d, e) == (IF d.sign = 1 THEN -1 ELSE 1) * d.coeff * Pow10(d.exp - e)

MinExp(a, b) == IF a.exp < b.exp THEN a.exp ELSE b.exp

\* Decimal.__add__ on finite operands (sums stay far below the context's
\* 28-digit precision, so the context rounds nothing)
DecAdd(a, b) ==
    With(ScaledTo(a, MinExp(a, b)) + ScaledTo(b, MinExp(a, b)), LAMBDA v :
        IF v = 0 THEN Finite(IF a.sign = 1 /\ b.sign = 1 THEN 1 ELSE 0, 0, MinExp(a, b))
        ELSE IF v < 0 THEN Finite(1, 0 - v, MinExp(a, b))
        ELSE Finite(0, v, MinExp(a, b)))

DecNeg(a) == [a EXCEPT !.sign = 1 - a.sign]

\* Decimal.__sub__
DecSub(a, b) == With(DecNeg(b), LAMBDA nb : DecAdd(a, nb))

\* a <= 0 for a finite or infinite decimal
DecLeZero(a) ==
    IF a.special = "Infinity" THEN a.sign = 1 ELSE a.sign = 1 \/ a.coeff = 0

\* Decimal.__eq__ on finite decimals
DecEq(a, b) == ScaledTo(a, MinExp(a, b)) = ScaledTo(b, MinExp(a, b))

DecZero == Finite(0, 0, 0)

\* the exponent of Decimal("0.01")
CentsExp == -2

\* coefficient q, or q + 1 when the discarded part r of k digits is more than
\* half a unit, or exactly half and q is odd (ROUND_HALF_EVEN)
RoundHalfEven(q, r, k) ==
    IF r > 5 * Pow10(k - 1) \/ (r = 5 * Pow10(k - 1) /\ q % 2 = 1) THEN q + 1 ELSE q

\* Decimal.quantize(Decimal("0.01")) of a finite d under the default context
Quantize(d) ==
    IF d.exp >= CentsExp THEN Finite(d.sign, d.coeff * Pow10(d.exp - CentsExp), CentsExp)
    ELSE Finite(d.sign,
                RoundHalfEven(d.coeff \div Pow10(CentsExp - d.exp),
                              d.coeff % Pow10(CentsExp - d.exp), CentsExp - d.exp),
                CentsExp)

(***************************************************************************)
(* datetime.date: [year, month, day]                                       *)
(***************************************************************************)
IsLeap(y) == (y % 4 = 0 /\ y % 100 # 0) \/ y % 400 = 0

DaysInMonth(y, m) ==
    IF m = 2 THEN (IF IsLeap(y) THEN 29 ELSE 28)
    ELSE IF m \in {4, 6, 9, 11} THEN 30 ELSE 31

\* the shape YYYY-MM-DD
IsoShape(s) ==
    /\ Len(s) = 10
    /\ s[5] = "-" /\ s[8] = "-"
    /\ \A i \in {1, 2, 3, 4, 6, 7, 9, 10} : IsDigit(s[i])

\* date(y, m, d) accepts the fields
DateFieldsOk(d) ==
    d.year >= 1 /\ d.month \in 1..12 /\ d.day >= 1 /\ d.day <= DaysInMonth(d.year, d.month)

\* the fields of a string of the shape YYYY-MM-DD
FromIsoFormat(s) ==
    [year |-> ToNat(SubSeq(s, 1, 4)), month |-> ToNat(SubSeq(s, 6, 7)),
     day |-> ToNat(SubSeq(s, 9, 10))]

\* whether date.fromisoformat(s) returns (it raises ValueError otherwise)
IsoDateOk(s) == IsoShape(s) /\ With(FromIsoFormat(s), LAMBDA d : DateFieldsOk(d))

\* date.isoformat()
IsoFormat(d) == ZeroPad(d.year, 4) \o <<"-">> \o ZeroPad(d.month, 2) \o <<"-">> \o ZeroPad(d.day, 2)

\* date.__gt__
DateGt(a, b) ==
    \/ a.year > b.year
    \/ a.year = b.year /\ a.month > b.month
    \/ a.year = b.year /\ a.month = b.month /\ a.day > b.day

(***************************************************************************)
(* str.upper() on the letters a-z                                          *)
(***************************************************************************)
LowerCase == <<"a", "b", "c", "d", "e", "f", "g", "h", "i", "j", "k", "l", "m",
               "n", "o", "p", "q", "r", "s", "t", "u", "v", "w", "x", "y", "z">>

UpperCase == <<"A", "B", "C", "D", "E", "F", "G", "H", "I", "J", "K", "L", "M",
               "N", "O", "P", "Q", "R", "S", "T", "U", "V", "W", "X", "Y", "Z">>

UpperChar(c) ==
    IF \E i \in 1..26 : LowerCase[i] = c
    THEN UpperCase[CHOOSE i \in 1..26 : LowerCase[i] = c]
    ELSE c

Upper(s) == [i \in 1..Len(s) |-> UpperChar(s[i])]

EXPENSE == <<"E", "X", "P", "E", "N", "S", "E">>

INCOME == <<"I", "N", "C", "O", "M", "E">>

(***************************************************************************)
(* Exceptions: the class raised and its message.  ValueError is the class  *)
(* the validators raise and main() catches; json.JSONDecodeError is a      *)
(* subclass of it.                                                         *)
(***************************************************************************)
NoError == [cls |-> "", msg |-> ""]

Raise(cls, msg) == [cls |-> cls, msg |-> msg]

\* isinstance(e, ValueError): what `except ValueError` in main() catches
IsValueError(e) == e.cls \in {"ValueError", "JSONDecodeError"}

(***************************************************************************)
(* Transaction, to_json, from_json                                         *)
(***************************************************************************)
Transaction(transaction_id, user_id, amount, category, occurred_on, note, tx_type) ==
    [transaction_id |-> transaction_id, user_id |-> user_id, amount |-> amount,
     category |-> category, occurred_on |-> occurred_on, note |-> note,
     tx_type |-> tx_type]

\* to_json writing the amount with two decimal places
to_json_two_places(t) ==
    [transaction_id |-> t.transaction_id, user_id |-> t.user_id,
     amount |-> DecStr(Quantize(t.amount)), category |-> t.category,
     occurred_on |-> IsoFormat(t.occurred_on), note |-> t.note,
     tx_type |-> t.tx_type]

to_json(t) ==
    [transaction_id |-> t.transaction_id, user_id |-> t.user_id,
     amount |-> DecStr(t.amount), category |-> t.category,
     occurred_on |-> IsoFormat(t.occurred_on), note |-> t.note,
     tx_type |-> t.tx_type]

Has(d, k) == k \in DOMAIN d

\* the exception from_json(d) raises, NoError when it returns; the keyword
\* arguments are evaluated in the order written
from_json_error(d) ==
    IF ~Has(d, "transaction_id") THEN Raise("KeyError", "transaction_id")
    ELSE IF ~Has(d, "user_id") THEN Raise("KeyError", "user_id")
    ELSE IF ~Has(d, "amount") THEN Raise("KeyError", "amount")
    ELSE IF ParseDecimal(d.amount) = BadDec THEN Raise("InvalidOperation", "ConversionSyntax")
    ELSE IF ~Has(d, "category") THEN Raise("KeyError", "category")
    ELSE IF ~Has(d, "occurred_on") THEN Raise("KeyError", "occurred_on")
    ELSE IF ~IsoDateOk(d.occurred_on) THEN Raise("ValueError", "Invalid isoformat string")
    ELSE NoError

\* from_json(d), when it returns
from_json(d) ==
    Transaction(d.transaction_id, d.user_id, ParseDecimal(d.amount), d.category,
                FromIsoFormat(d.occurred_on),
                IF Has(d, "note") THEN d.note ELSE <<>>,
                IF Has(d, "tx_type") THEN d.tx_type ELSE EXPENSE)

(***************************************************************************)
(* The backing record (the file at self.path):                             *)
(*   kind "missing"  the path does not exist                               *)
(*   kind "garbage"  text that is not JSON                                 *)
(*   kind "array"    a JSON document whose top level is a list             *)
(*   kind "object"   a JSON object, with or without a "transactions" key   *)
(***************************************************************************)
MissingFile == [kind |-> "missing", has_transactions |-> FALSE, transactions |-> <<>>]

GarbageFile == [kind |-> "garbage", has_transactions |-> FALSE, transactions |-> <<>>]

ArrayFile == [kind |-> "array", has_transactions |-> FALSE, transactions |-> <<>>]

ObjectFile(has, recs) == [kind |-> "object", has_transactions |-> has, transactions |-> recs]

\* the first record from_json raises on (0: none)
FirstBad(recs) ==
    With({i \in 1..Len(recs) : from_json_error(recs[i]) # NoError}, LAMBDA bad :
        IF bad = {} THEN 0 ELSE CHOOSE i \in bad : \A j \in bad : i <= j)

\* the exception load_all() raises on backing record f, NoError when it returns
load_all_error(f) ==
    IF f.kind = "missing" THEN NoError
    ELSE IF f.kind = "garbage" THEN Raise("JSONDecodeError", "Expecting value")
    ELSE IF f.kind = "array" THEN Raise("AttributeError", "'list' object has no attribute 'get'")
    ELSE With(FirstBad(f.transactions), LAMBDA bad :
             IF bad # 0 THEN from_json_error(f.transactions[bad]) ELSE NoError)

\* load_all(), when it returns
load_all(f) ==
    IF f.kind = "missing" THEN <<>>
    ELSE [i \in 1..Len(f.transactions) |-> from_json(f.transactions[i])]

\* save_all(transactions): the backing record it writes
save_all(transactions) ==
    ObjectFile(TRUE, [i \in 1..Len(transactions) |-> to_json(transactions[i])])

\* append that puts the new transaction in front of the loaded ones
append_file_front(f, transaction) ==
    With(load_all(f), LAMBDA loaded :
    With(<<transaction>> \o loaded, LAMBDA appended_txs : save_all(appended_txs)))

\* append(transaction): txs = load_all(); txs.append(transaction); save_all(txs)
append_file(f, transaction) ==
    With(load_all(f), LAMBDA loaded :
    With(Append(loaded, transaction), LAMBDA appended_txs : save_all(appended_txs)))

(***************************************************************************)
(* ReportService.monthly_totals                                            *)
(***************************************************************************)
\* the loop of lines 86-93 from transaction k on, then line 94
RECURSIVE SumTotals(_, _, _, _, _, _, _)
SumTotals(loaded, k, user_id, year, month, income, expense) ==
    IF k > Len(loaded)
    THEN [income |-> income, expense |-> expense, net |-> DecSub(income, expense)]
    ELSE IF loaded[k].user_id # user_id
    THEN SumTotals(loaded, k + 1, user_id, year, month, income, expense)
    ELSE IF loaded[k].occurred_on.year = year /\ loaded[k].occurred_on.month = month
    THEN IF Upper(loaded[k].tx_type) = INCOME
         THEN With(DecAdd(income, loaded[k].amount), LAMBDA sum :
                  SumTotals(loaded, k + 1, user_id, year, month, sum, expense))
         ELSE With(DecAdd(expense, loaded[k].amount), LAMBDA sum :
                  SumTotals(loaded, k + 1, user_id, year, month, income, sum))
    ELSE SumTotals(loaded, k + 1, user_id, year, month, income, expense)

\* monthly_totals over the loaded transactions
monthly_totals(loaded, user_id, year, month) ==
    SumTotals(loaded, 1, user_id, year, month, DecZero, DecZero)

(***************************************************************************)
(* ExpenseService validators: each yields [error, value]                   *)
(***************************************************************************)
MaxCategoryLen == 30

_validate_amount(amount_str) ==
    With(Strip(amount_str), LAMBDA stripped :
    With(ParseDecimal(stripped), LAMBDA amount :
        IF amount = BadDec
        THEN [error |-> Raise("ValueError", "Amount must be a valid number (e.g., 12.50)."), value |-> DecZero]
        ELSE IF amount.special = "NaN"
        THEN [error |-> Raise("InvalidOperation", "comparison involving NaN"), value |-> DecZero]
        ELSE IF DecLeZero(amount)
        THEN [error |-> Raise("ValueError", "Amount must be greater than 0."), value |-> DecZero]
        ELSE IF amount.special = "Infinity"
        THEN [error |-> Raise("InvalidOperation", "quantize of infinity"), value |-> DecZero]
        ELSE [error |-> NoError, value |-> Quantize(amount)]))

\* _validate_category without the length rule of lines 157-158
_validate_category_unbounded(category) ==
    With(Strip(category), LAMBDA stripped :
        IF stripped = <<>>
        THEN [error |-> Raise("ValueError", "Category is required."), value |-> <<>>]
        ELSE [error |-> NoError, value |-> stripped])

_validate_category(category) ==
    With(Strip(category), LAMBDA stripped :
        IF category = <<>> \/ stripped = <<>>
        THEN [error |-> Raise("ValueError", "Category is required."), value |-> <<>>]
        ELSE IF Len(stripped) > MaxCategoryLen
        THEN [error |-> Raise("ValueError", "Category must be 30 characters or less."), value |-> <<>>]
        ELSE [error |-> NoError, value |-> stripped])

NoDate == [year |-> 0, month |-> 0, day |-> 0]

\* date_today is date.today()
\* _validate_date without the future rule of lines 168-169
_validate_date_unchecked(date_str, date_today) ==
    With(Strip(date_str), LAMBDA stripped :
        IF ~IsoDateOk(stripped)
        THEN [error |-> Raise("ValueError", "Date must be in ISO format YYYY-MM-DD."), value |-> NoDate]
        ELSE [error |-> NoError, value |-> FromIsoFormat(stripped)])

_validate_date(date_str, date_today) ==
    With(Strip(date_str), LAMBDA stripped :
        IF ~IsoDateOk(stripped)
        THEN [error |-> Raise("ValueError", "Date must be in ISO format YYYY-MM-DD."), value |-> NoDate]
        ELSE With(FromIsoFormat(stripped), LAMBDA d :
                 IF DateGt(d, date_today)
                 THEN [error |-> Raise("ValueError", "Date cannot be in the future for an expense entry."), value |-> NoDate]
                 ELSE [error |-> NoError, value |-> d]))

\* the validators called in the order category, amount, date
validation_error_category_first(am, cat, dt) ==
    IF cat.error # NoError THEN cat.error
    ELSE IF am.error # NoError THEN am.error
    ELSE dt.error

\* lines 112-114: the first exception of the three validators, called in the
\* order amount, category, date (am, cat, dt are what each yields)
validation_error(am, cat, dt) ==
    IF am.error # NoError THEN am.error
    ELSE IF cat.error # NoError THEN cat.error
    ELSE dt.error

\* _new_tx_id(): "TX-" + datetime.now().strftime("%H%M%S"); now is the clock's HHMMSS
_new_tx_id(now) == "TX-" \o now

\* lines 116-125: the Transaction add_expense builds once validation has passed
new_transaction(user_id, amount, category_clean, occurred_on, note, transaction_id, now) ==
    Transaction(IF transaction_id # "" THEN transaction_id ELSE _new_tx_id(now),
                user_id, amount, category_clean, occurred_on, Strip(note), EXPENSE)

\* f"{occurred_on.year}-{occurred_on.month:02d}"
month_label(d) == NatDigits(d.year) \o <<"-">> \o ZeroPad(d.month, 2)

(***************************************************************************)
(* The outcome of one call, as the caller sees it                          *)
(***************************************************************************)
NoTx == Transaction("", "", DecZero, <<>>, NoDate, <<>>, <<>>)

NoTotals == [income |-> DecZero, expense |-> DecZero, net |-> DecZero]

NoResult == [transaction_id |-> "", month |-> <<>>, income |-> <<>>, expense |-> <<>>, net |-> <<>>]

\* ReportService.monthly_totals(user_id, year, month) on backing record f
monthly_totals_call(f, user_id, year, month) ==
    With(load_all_error(f), LAMBDA err :
        IF err # NoError
        THEN [error |-> err, totals |-> NoTotals]
        ELSE With(load_all(f), LAMBDA loaded :
                 [error |-> NoError, totals |-> monthly_totals(loaded, user_id, year, month)]))

\* TransactionRepository.append(transaction) on backing record f
append_call(f, transaction) ==
    With(load_all_error(f), LAMBDA err :
        IF err # NoError
        THEN [error |-> err, file |-> f]
        ELSE [error |-> NoError, file |-> append_file(f, transaction)])

\* lines 129-135: the dictionary add_expense returns
expense_result(tx, totals) ==
    [transaction_id |-> tx.transaction_id, month |-> month_label(tx.occurred_on),
     income |-> DecStr(totals.income), expense |-> DecStr(totals.expense),
     net |-> DecStr(totals.net)]

\* lines 126-135: append the transaction, query its month's totals
\* commit_expense reporting the totals read before the append
commit_expense_stale(f, tx) ==
    With(append_call(f, tx), LAMBDA app :
        IF app.error # NoError
        THEN [error |-> app.error, file |-> f, tx |-> tx, result |-> NoResult]
        ELSE With(monthly_totals_call(f, tx.user_id, tx.occurred_on.year,
                                      tx.occurred_on.month), LAMBDA tot :
                 IF tot.error # NoError
                 THEN [error |-> tot.error, file |-> app.file, tx |-> tx, result |-> NoResult]
                 ELSE [error |-> NoError, file |-> app.file, tx |-> tx,
                       result |-> expense_result(tx, tot.totals)]))

commit_expense(f, tx) ==
    With(append_call(f, tx), LAMBDA app :
        IF app.error # NoError
        THEN [error |-> app.error, file |-> f, tx |-> tx, result |-> NoResult]
        ELSE With(monthly_totals_call(app.file, tx.user_id, tx.occurred_on.year,
                                      tx.occurred_on.month), LAMBDA tot :
                 IF tot.error # NoError
                 THEN [error |-> tot.error, file |-> app.file, tx |-> tx, result |-> NoResult]
                 ELSE [error |-> NoError, file |-> app.file, tx |-> tx,
                       result |-> expense_result(tx, tot.totals)]))

\* lines 112-125: validate, then build the transaction and commit it
validate_and_commit(f, user_id, am, cat, dt, note, transaction_id, now) ==
    With(validation_error(am, cat, dt), LAMBDA verr :
        IF verr # NoError
        THEN [error |-> verr, file |-> f, tx |-> NoTx, result |-> NoResult]
        ELSE With(new_transaction(user_id, am.value, cat.value, dt.value, note,
                                  transaction_id, now),
                  LAMBDA tx : commit_expense(f, tx)))

\* ExpenseService.add_expense(...) on backing record f
add_expense(f, user_id, amount_str, category, date_str, note, transaction_id, now, date_today) ==
    With(_validate_amount(amount_str), LAMBDA am :
    With(_validate_category(category), LAMBDA cat :
    With(_validate_date(date_str, date_today), LAMBDA dt :
        validate_and_commit(f, user_id, am, cat, dt, note, transaction_id, now))))

\* date.today() one day later
NextDay(d) ==
    IF d.day < DaysInMonth(d.year, d.month) THEN [d EXCEPT !.day = d.day + 1]
    ELSE IF d.month < 12 THEN [d EXCEPT !.month = d.month + 1, !.day = 1]
    ELSE [year |-> d.year + 1, month |-> 1, day |-> 1]

(***************************************************************************)
(* State                                                                   *)
(***************************************************************************)
VARIABLES
    file,       \* the backing record at self.path
    today,      \* date.today()
    last,       \* the last call: its arguments, the record before it, its outcome
    appended,   \* the transactions handed to append so far, in call order
    pc,         \* per concurrent caller of append: "idle", "loaded", "returned"
    txs,        \* per caller: the local list txs of append
    snap,       \* per caller: the transactions its load_all returned
    arg,        \* per caller: the transaction it was called with
    lastSaver   \* the caller whose save_all wrote the backing record last (0: none)

vars == <<file, today, last, appended, pc, txs, snap, arg, lastSaver>>

Procs == {1, 2}

procVars == <<pc, txs, snap, arg, lastSaver>>

NoCall ==
    [op |-> "none", user_id |-> "", amount_str |-> <<>>, category |-> <<>>,
     date_str |-> <<>>, note |-> <<>>, year |-> 0, month |-> 0, before |-> MissingFile,
     today |-> NoDate, error |-> NoError, tx |-> NoTx, result |-> NoResult,
     totals |-> NoTotals, loaded |-> <<>>, saved |-> <<>>]

\* the number of records of the backing record
Size(f) == Len(f.transactions)

(***************************************************************************)
(* Operations, one action per whole call                                   *)
(***************************************************************************)
\* service.add_expense(user_id, amount_str, category, date_str, note, transaction_id)
AddExpense(cap, user_id, amount_str, category, date_str, note, transaction_id, now) ==
    /\ Size(file) < cap
    /\ \E r \in {add_expense(file, user_id, amount_str, category, date_str, note,
                             transaction_id, now, today)} :
          /\ file' = r.file
          /\ last' = [NoCall EXCEPT !.op = "add_expense", !.user_id = user_id,
                                    !.amount_str = amount_str, !.category = category,
                                    !.date_str = date_str, !.note = note, !.before = file,
                                    !.today = today, !.error = r.error, !.tx = r.tx,
                                    !.result = r.result]
          /\ appended' = IF r.error = NoError THEN Append(appended, r.tx) ELSE appended
    /\ UNCHANGED <<today, procVars>>

\* repo.append(tx)
AppendTx(cap, tx) ==
    /\ Size(file) < cap
    /\ \E r \in {append_call(file, tx)} :
          /\ file' = r.file
          /\ last' = [NoCall EXCEPT !.op = "append", !.before = file, !.today = today,
                                    !.error = r.error, !.tx = tx]
          /\ appended' = IF r.error = NoError THEN Append(appended, tx) ELSE appended
    /\ UNCHANGED <<today, procVars>>

\* reporter.monthly_totals(user_id, year, month)
MonthlyTotals(user_id, year, month) ==
    /\ \E r \in {monthly_totals_call(file, user_id, year, month)} :
          last' = [NoCall EXCEPT !.op = "monthly_totals", !.user_id = user_id,
                                 !.year = year, !.month = month, !.before = file,
                                 !.today = today, !.error = r.error, !.totals = r.totals]
    /\ UNCHANGED <<file, today, appended, procVars>>

\* repo.load_all()
LoadAll ==
    /\ \E err \in {load_all_error(file)} :
          last' = [NoCall EXCEPT !.op = "load_all", !.before = file, !.today = today,
                                 !.error = err,
                                 !.loaded = IF err = NoError THEN load_all(file) ELSE <<>>]
    /\ UNCHANGED <<file, today, appended, procVars>>

\* repo.save_all(repo.load_all())
Resave ==
    /\ \E err \in {load_all_error(file)} :
          /\ file' = IF err = NoError
                     THEN With(load_all(file), LAMBDA loaded : save_all(loaded))
                     ELSE file
          /\ last' = [NoCall EXCEPT !.op = "resave", !.before = file, !.today = today,
                                    !.error = err]
    /\ UNCHANGED <<today, appended, procVars>>

\* repo.save_all(transactions)
SaveAll(transactions) ==
    /\ file' = save_all(transactions)
    /\ last' = [NoCall EXCEPT !.op = "save_all", !.before = file, !.today = today,
                              !.saved = transactions]
    /\ UNCHANGED <<today, appended, procVars>>

\* the calendar moves on to the next day
Tick(lastDay) ==
    /\ DateGt(lastDay, today)
    /\ today' = NextDay(today)
    /\ UNCHANGED <<file, last, appended, procVars>>

(***************************************************************************)
(* append called concurrently: line 72 and line 74 are separate steps      *)
(***************************************************************************)
\* lines 72-73: txs = self.load_all(); txs.append(transaction)
AppendLoad(cap, p, tx) ==
    /\ pc[p] # "loaded"
    /\ Len(appended) < cap
    /\ load_all_error(file) = NoError
    /\ \E loaded \in {load_all(file)} :
          /\ snap' = [snap EXCEPT ![p] = loaded]
          /\ txs' = [txs EXCEPT ![p] = Append(loaded, tx)]
    /\ pc' = [pc EXCEPT ![p] = "loaded"]
    /\ arg' = [arg EXCEPT ![p] = tx]
    /\ appended' = Append(appended, tx)
    /\ UNCHANGED <<file, today, last, lastSaver>>

\* line 74: the backing record save_all(txs) writes over f for the caller
\* whose local list is local_txs
\* a save that re-reads the store and adds the caller's transaction to it
append_save_reload(f, local_txs) == save_all(Append(load_all(f), local_txs[Len(local_txs)]))

append_save(f, local_txs) == save_all(local_txs)

\* line 74: self.save_all(txs), then append returns
AppendSave(p) ==
    /\ pc[p] = "loaded"
    /\ file' = append_save(file, txs[p])
    /\ pc' = [pc EXCEPT ![p] = "returned"]
    /\ lastSaver' = p
    /\ UNCHANGED <<today, last, appended, txs, snap, arg>>

(***************************************************************************)
(* Inputs                                                                  *)
(***************************************************************************)
A_10_00 == <<"1", "0", ".", "0", "0">>

A_5_00 == <<"5", ".", "0", "0">>

A_neg5 == <<"-", "5">>

A_zero == <<"0">>

A_abc == <<"a", "b", "c">>

A_pad_2_5 == <<" ", "2", ".", "5", " ">>

A_0_004 == <<"0", ".", "0", "0", "4">>

A_0_015 == <<"0", ".", "0", "1", "5">>

A_0_125 == <<"0", ".", "1", "2", "5">>

A_2_675 == <<"2", ".", "6", "7", "5">>

A_NaN == <<"N", "a", "N">>

A_Infinity == <<"I", "n", "f", "i", "n", "i", "t", "y">>

A_100_00 == <<"1", "0", "0", ".", "0", "0">>

A_plus5 == <<"+", "5">>

A_7_5 == <<"7", ".", "5">>

C_Groceries == <<"G", "r", "o", "c", "e", "r", "i", "e", "s">>

C_Food == <<"F", "o", "o", "d">>

C_padFood == <<" ", "F", "o", "o", "d", " ">>

C_blank == <<" ", " ", " ">>

C_two_words == <<"a", " ", "b">>

D_2020_02_10 == <<"2", "0", "2", "0", "-", "0", "2", "-", "1", "0">>

D_2020_02_11 == <<"2", "0", "2", "0", "-", "0", "2", "-", "1", "1">>

D_2020_01_31 == <<"2", "0", "2", "0", "-", "0", "1", "-", "3", "1">>

D_pad_2020_01_31 == <<" ", "2", "0", "2", "0", "-", "0", "1", "-", "3", "1", " ">>

D_2020_02_30 == <<"2", "0", "2", "0", "-", "0", "2", "-", "3", "0">>

D_2020_2_10 == <<"2", "0", "2", "0", "-", "2", "-", "1", "0">>

D_2020_13_10 == <<"2", "0", "2", "0", "-", "1", "3", "-", "1", "0">>

D_2999_01_01 == <<"2", "9", "9", "9", "-", "0", "1", "-", "0", "1">>

D_abc == <<"a", "b", "c">>

N_milk == <<" ", "m", "i", "l", "k", " ">>

TRANSFER == <<"T", "R", "A", "N", "S", "F", "E", "R">>

income_lower == <<"i", "n", "c", "o", "m", "e">>

C_30 == Rep("a", MaxCategoryLen)

C_31 == Rep("a", MaxCategoryLen + 1)

C_pad30 == <<" ">> \o C_30 \o <<" ">>

\* date.today() at the start, and the last day the calendar reaches
Today0 == [year |-> 2020, month |-> 2, day |-> 10]

LastDay == [year |-> 2020, month |-> 2, day |-> 11]

Users == {"jason", "ana"}

Months == {<<2020, 1>>, <<2020, 2>>}

\* every validation rule's cases: amount x category x date
AmountTexts ==
    {A_10_00, A_neg5, A_zero, A_abc, <<>>, A_pad_2_5, A_0_004, A_0_015, A_0_125,
     A_2_675, A_NaN, A_Infinity}

CategoryTexts == {C_Groceries, C_padFood, C_blank, <<>>, C_two_words, C_30, C_31, C_pad30}

DateTexts ==
    {D_2020_02_10, D_2020_02_11, D_pad_2020_01_31, D_2020_02_30, D_2020_2_10,
     D_2999_01_01, D_abc, <<>>}

\* the smaller input sets of the runs in which the store grows
FewAmounts == {A_0_125, A_neg5}

FewCategories == {C_padFood, C_blank}

FewDates == {D_2020_02_10, D_2020_01_31}

\* transactions handed to repo.append directly
TxIncome ==
    Transaction("I1", "jason", ParseDecimal(A_100_00), C_Food, FromIsoFormat(D_2020_02_10), <<>>, INCOME)

TxIncomeLower ==
    Transaction("I2", "jason", ParseDecimal(A_7_5), C_Food, FromIsoFormat(D_2020_02_10), <<>>, income_lower)

TxTransfer ==
    Transaction("T1", "jason", ParseDecimal(A_5_00), C_Food, FromIsoFormat(D_2020_02_10), N_milk, TRANSFER)

TxOther ==
    Transaction("E1", "ana", ParseDecimal(A_10_00), C_Groceries, FromIsoFormat(D_2020_01_31), <<>>, EXPENSE)

DirectTxs == {TxIncome, TxIncomeLower}

\* the most records a store grows to
MaxTx == 2

\* the most records of an initial backing record
MaxRaw == 2

\* the most append calls of the concurrent run
MaxAppends == 3

\* records of initial backing records: written by save_all, written by hand
\* or by an older version (no note, no tx_type, a signed amount), and broken
RawExpense ==
    to_json(Transaction("E0", "jason", ParseDecimal(A_10_00), C_Groceries,
                        FromIsoFormat(D_2020_02_10), <<>>, EXPENSE))

RawNoNote ==
    [transaction_id |-> "H1", user_id |-> "jason", amount |-> A_5_00,
     category |-> C_Food, occurred_on |-> D_2020_02_10]

RawPlus5 == [RawExpense EXCEPT !.transaction_id = "H2", !.amount = A_plus5]

RawBadAmount == [RawExpense EXCEPT !.transaction_id = "B1", !.amount = A_abc]

RawBadDate == [RawExpense EXCEPT !.transaction_id = "B2", !.occurred_on = D_2020_13_10]

RawNoId ==
    [user_id |-> "jason", amount |-> A_5_00, category |-> C_Food,
     occurred_on |-> D_2020_02_10, note |-> <<>>, tx_type |-> EXPENSE]

RawRecords ==
    {to_json(TxIncome), to_json(TxIncomeLower), to_json(TxTransfer), to_json(TxOther),
     RawExpense, RawNoNote, RawPlus5, RawBadAmount, RawBadDate, RawNoId}

SeqsUpTo(S, n) == UNION {[1..k -> S] : k \in 0..n}

InitFiles ==
    {MissingFile, GarbageFile, ArrayFile, ObjectFile(FALSE, <<>>)}
        \cup {ObjectFile(TRUE, recs) : recs \in SeqsUpTo(RawRecords, MaxRaw)}

StoreAmounts == {A_10_00, A_neg5, A_abc}

StoreCategories == {C_Food, C_blank, C_31}

StoreDates == {D_2020_02_10, D_abc, D_2999_01_01}

RaceTxs ==
    {Transaction("R1", "jason", ParseDecimal(A_10_00), C_Food, FromIsoFormat(D_2020_02_10), <<>>, EXPENSE),
     Transaction("R2", "jason", ParseDecimal(A_5_00), C_Food, FromIsoFormat(D_2020_02_10), <<>>, EXPENSE),
     Transaction("R3", "ana", ParseDecimal(A_7_5), C_Food, FromIsoFormat(D_2020_01_31), <<>>, INCOME)}

(***************************************************************************)
(* Specifications                                                          *)
(***************************************************************************)
InitRest ==
    /\ today = Today0
    /\ appended = <<>>
    /\ pc = [p \in Procs |-> "idle"]
    /\ txs = [p \in Procs |-> <<>>]
    /\ snap = [p \in Procs |-> <<>>]
    /\ arg = [p \in Procs |-> NoTx]
    /\ lastSaver = 0

\* the state after construction over a path that does not exist
Init == file = MissingFile /\ last = NoCall /\ InitRest

\* sequential calls: add_expense, append, monthly_totals, load_all
Next ==
    \/ \E u \in Users, a \in FewAmounts, c \in FewCategories, d \in FewDates :
          AddExpense(MaxTx, u, a, c, d, <<>>, "", "102437")
    \/ \E tx \in DirectTxs : AppendTx(MaxTx, tx)
    \/ \E u \in Users, ym \in Months : MonthlyTotals(u, ym[1], ym[2])
    \/ LoadAll

Spec == Init /\ [][Next]_vars

\* add_expense calls only, while the calendar moves on
NextExpense ==
    \/ \E a \in {A_10_00, A_neg5}, c \in {C_padFood, C_blank, C_31, C_pad30},
          d \in {D_2020_02_10, D_2020_02_11, D_abc} :
          AddExpense(MaxTx, "jason", a, c, d, N_milk, "", "102437")
    \/ Tick(LastDay)

SpecExpense == Init /\ [][NextExpense]_vars

\* a call of add_expense about to be made
Pending(a, c, d) ==
    [NoCall EXCEPT !.op = "pending", !.user_id = "jason", !.amount_str = a,
                   !.category = c, !.date_str = d]

\* one add_expense call for every combination of the validation rules' cases
InitValidate ==
    /\ file = MissingFile
    /\ last \in {Pending(a, c, d) : a \in AmountTexts, c \in CategoryTexts, d \in DateTexts}
    /\ InitRest

NextValidate ==
    \/ /\ last.op = "pending"
       /\ \E id \in {"", "A1"} :
             AddExpense(MaxTx, last.user_id, last.amount_str, last.category,
                        last.date_str, N_milk, id, "102437")
    \/ Tick(LastDay)

SpecValidate == InitValidate /\ [][NextValidate]_vars

\* one call on a backing record the program need not have written itself
InitStore == file \in InitFiles /\ last = NoCall /\ InitRest

NextStore ==
    \/ /\ last.op = "none"
       /\ \E a \in StoreAmounts, c \in StoreCategories, d \in StoreDates :
             AddExpense(MaxRaw + 1, "jason", a, c, d, <<>>, "", "102437")
    \/ /\ last.op = "none"
       /\ \E tx \in DirectTxs : AppendTx(MaxRaw + 1, tx)
    \/ /\ last.op = "none"
       /\ \E ym \in Months : MonthlyTotals("jason", ym[1], ym[2])
    \/ /\ last.op = "none"
       /\ LoadAll
    \/ /\ last.op = "none"
       /\ Resave
    \/ /\ last.op = "none"
       /\ \E s \in SeqsUpTo({TxIncomeLower, TxTransfer, TxOther}, MaxTx) : SaveAll(s)

SpecStore == InitStore /\ [][NextStore]_vars

\* two callers of append on the same backing record, interleaved
NextRace ==
    \/ \E p \in Procs, tx \in RaceTxs : AppendLoad(MaxAppends, p, tx)
    \/ \E p \in Procs : AppendSave(p)

SpecRace == Init /\ [][NextRace]_vars

(***************************************************************************)
(* Properties                                                              *)
(***************************************************************************)
\* the transactions load_all() returns now
Store == load_all(file)

FutureMsg == "Date cannot be in the future for an expense entry."

\* the input classes the validation rules name, read off the input texts
AmountUnparsable(a) == ParseDecimal(a) = BadDec

AmountNotPositive(a) == ParseDecimal(a).special \in {"", "Infinity"} /\ DecLeZero(ParseDecimal(a))

CategoryBlank(c) == Strip(c) = <<>>

CategoryTooLong(c) == Len(Strip(c)) > MaxCategoryLen

DateUnparsable(d) == ~IsoDateOk(Strip(d))

DateInFuture(d, t) == IsoDateOk(Strip(d)) /\ DateGt(FromIsoFormat(Strip(d)), t)

FailsValidation(a, c, d, t) ==
    \/ AmountUnparsable(a) \/ AmountNotPositive(a)
    \/ CategoryBlank(c) \/ CategoryTooLong(c)
    \/ DateUnparsable(d) \/ DateInFuture(d, t)

\* C1: whenever add_expense fails validation (unparsable amount, amount <= 0,
\* blank or over-30-character category, unparsable date, date after today) it
\* raises, creates no transaction, and leaves the backing record as it was,
\* whatever the record held and whatever the other arguments are.
C1_FailedValidationLeavesStore ==
    (last.op = "add_expense"
        /\ FailsValidation(last.amount_str, last.category, last.date_str, last.today))
    => /\ last.error # NoError
       /\ last.tx = NoTx
       /\ file = last.before

\* C1 witness: a call with a valid amount and category and a date after today,
\* on a store that already held a transaction
C1_Witness ==
    /\ last.op = "add_expense"
    /\ ~AmountUnparsable(last.amount_str) /\ ~AmountNotPositive(last.amount_str)
    /\ ~CategoryBlank(last.category) /\ ~CategoryTooLong(last.category)
    /\ DateInFuture(last.date_str, last.today)
    /\ Size(last.before) >= 1
    /\ load_all_error(last.before) = NoError

IsPrefix(s, t) == Len(s) <= Len(t) /\ SubSeq(t, 1, Len(s)) = s

\* C2: in a sequential run from a missing backing record, load_all returns
\* exactly the transactions appended so far (by append or by a successful
\* add_expense), each once, in the order appended, and every earlier store
\* content is a prefix of every later one.
C2_StoreIsAppendedInOrder ==
    /\ [](load_all_error(file) = NoError /\ Store = appended)
    /\ [][IsPrefix(load_all(file), load_all(file'))]_vars

\* C2 witness: two different transactions appended, one by append and one by
\* add_expense
C2_Witness ==
    /\ Len(appended) >= 2
    /\ appended[1] # appended[2]
    /\ appended[1] \in DirectTxs
    /\ last.op = "add_expense" /\ last.error = NoError

Abs(n) == IF n < 0 THEN 0 - n ELSE n

\* q is a multiple of 0.01 nearest to p
NearestCent(p, q) ==
    /\ q.exp = CentsExp
    /\ 2 * Abs(ScaledTo(p, MinExp(p, q)) - ScaledTo(q, MinExp(p, q)))
           <= Pow10(CentsExp - MinExp(p, q))

\* C3: for every amount string add_expense accepts, the persisted amount is
\* strictly positive, has exactly 2 fractional digits and equals the input
\* rounded to 2 decimal places.
C3_PersistedAmountPositiveRounded ==
    (last.op = "add_expense" /\ last.error = NoError)
    => /\ Store[Size(file)].amount.special = ""
       /\ Store[Size(file)].amount.sign = 0
       /\ Store[Size(file)].amount.coeff > 0
       /\ NearestCent(ParseDecimal(last.amount_str), Store[Size(file)].amount)

\* the sum of the amounts of the transactions of txs from k on whose user and
\* month match and whose type label, upper-cased, is label
RECURSIVE SumOfType(_, _, _, _, _, _)
SumOfType(loaded, k, user_id, year, month, label) ==
    IF k > Len(loaded) THEN DecZero
    ELSE IF /\ loaded[k].user_id = user_id
            /\ loaded[k].occurred_on.year = year
            /\ loaded[k].occurred_on.month = month
            /\ Upper(loaded[k].tx_type) = label
         THEN DecAdd(loaded[k].amount, SumOfType(loaded, k + 1, user_id, year, month, label))
         ELSE SumOfType(loaded, k + 1, user_id, year, month, label)

\* C4: monthly_totals returns income = the sum of the user's INCOME amounts of
\* the month, expense = the sum of its EXPENSE amounts, net = income - expense;
\* other users, other months and other type labels add to neither sum.
C4_TotalsByTypeLabel ==
    (last.op = "monthly_totals" /\ last.error = NoError)
    => /\ DecEq(last.totals.income,
                SumOfType(load_all(last.before), 1, last.user_id, last.year, last.month, INCOME))
       /\ DecEq(last.totals.expense,
                SumOfType(load_all(last.before), 1, last.user_id, last.year, last.month, EXPENSE))
       /\ DecEq(last.totals.net, DecSub(last.totals.income, last.totals.expense))

TotalsOf(f, user_id, year, month) == monthly_totals(load_all(f), user_id, year, month)

\* C5: after a successful add_expense the totals it returns are those
\* monthly_totals reads for the user and the month of the date; that month's
\* expense is the value before plus the persisted amount, its income is
\* unchanged, and the totals of every other (user, year, month) are unchanged.
C5_TotalsAfterAddExpense ==
    (last.op = "add_expense" /\ last.error = NoError)
    => /\ last.result.income
             = DecStr(TotalsOf(file, last.user_id, last.tx.occurred_on.year, last.tx.occurred_on.month).income)
       /\ last.result.expense
             = DecStr(TotalsOf(file, last.user_id, last.tx.occurred_on.year, last.tx.occurred_on.month).expense)
       /\ last.result.net
             = DecStr(TotalsOf(file, last.user_id, last.tx.occurred_on.year, last.tx.occurred_on.month).net)
       /\ \A u \in Users, ym \in Months :
             IF u = last.user_id /\ ym = <<last.tx.occurred_on.year, last.tx.occurred_on.month>>
             THEN /\ DecEq(TotalsOf(file, u, ym[1], ym[2]).expense,
                           DecAdd(TotalsOf(last.before, u, ym[1], ym[2]).expense,
                                  Store[Size(file)].amount))
                  /\ TotalsOf(file, u, ym[1], ym[2]).income
                        = TotalsOf(last.before, u, ym[1], ym[2]).income
             ELSE TotalsOf(file, u, ym[1], ym[2]) = TotalsOf(last.before, u, ym[1], ym[2])

\* C5 witness: an expense added for a user and month that already had income
C5_Witness ==
    /\ last.op = "add_expense" /\ last.error = NoError
    /\ Size(last.before) >= 1
    /\ TotalsOf(last.before, last.user_id, last.tx.occurred_on.year,
                last.tx.occurred_on.month).income.coeff > 0
    /\ last.result.income # <<"0">>

\* C6: reached from an empty store by add_expense calls only, with the date
\* never moving backwards, every stored transaction has type EXPENSE, a
\* category that is the trimmed input, 1 to 30 characters long, and a date not
\* after the current date; an input dated today is accepted, one dated
\* tomorrow is rejected.
C6_StoredExpensesValid ==
    /\ load_all_error(file) = NoError
    /\ \A i \in 1..Size(file) :
          /\ Store[i].tx_type = EXPENSE
          /\ Len(Store[i].category) >= 1
          /\ Len(Store[i].category) <= MaxCategoryLen
          /\ Store[i].category = Strip(Store[i].category)
          /\ ~DateGt(Store[i].occurred_on, today)
    /\ (last.op = "add_expense" /\ last.error = NoError)
          => Store[Size(file)].category = Strip(last.category)
    /\ (last.op = "add_expense"
           /\ ~FailsValidation(last.amount_str, last.category, IsoFormat(last.today), last.today)
           /\ IsoDateOk(Strip(last.date_str)))
          => /\ FromIsoFormat(Strip(last.date_str)) = last.today => last.error = NoError
             /\ FromIsoFormat(Strip(last.date_str)) = NextDay(last.today)
                   => last.error = Raise("ValueError", FutureMsg)

\* C6 witness: a second expense, dated today after the date has moved on,
\* whose category was given with surrounding blanks and 30 characters between
C6_Witness ==
    /\ last.op = "add_expense" /\ last.error = NoError
    /\ Size(file) = 2
    /\ last.today = LastDay
    /\ FromIsoFormat(Strip(last.date_str)) = last.today
    /\ last.category # Strip(last.category)
    /\ Len(Store[2].category) = MaxCategoryLen

\* the error the rules name for the inputs, taking amount, then category,
\* then date, and within each the unparsable or blank case first
FirstRuleError(a, c, d, t) ==
    IF AmountUnparsable(a) THEN Raise("ValueError", "Amount must be a valid number (e.g., 12.50).")
    ELSE IF ParseDecimal(a).special = "NaN" THEN Raise("InvalidOperation", "comparison involving NaN")
    ELSE IF AmountNotPositive(a) THEN Raise("ValueError", "Amount must be greater than 0.")
    ELSE IF ParseDecimal(a).special = "Infinity" THEN Raise("InvalidOperation", "quantize of infinity")
    ELSE IF CategoryBlank(c) THEN Raise("ValueError", "Category is required.")
    ELSE IF CategoryTooLong(c) THEN Raise("ValueError", "Category must be 30 characters or less.")
    ELSE IF DateUnparsable(d) THEN Raise("ValueError", "Date must be in ISO format YYYY-MM-DD.")
    ELSE IF DateInFuture(d, t) THEN Raise("ValueError", FutureMsg)
    ELSE NoError

\* C7: add_expense checks amount, then category, then date and reports only
\* the first failing rule; within amount, unparsable before non-positive;
\* within category, blank before too long; within date, unparsable before
\* future.
C7_FirstFailingRule ==
    last.op = "add_expense"
    => last.error = FirstRuleError(last.amount_str, last.category, last.date_str, last.today)

\* C7 witness: a valid amount with a blank category and an unparsable date
\* reports the category
C7_Witness ==
    /\ last.op = "add_expense"
    /\ ~AmountUnparsable(last.amount_str) /\ ~AmountNotPositive(last.amount_str)
    /\ ParseDecimal(last.amount_str).special = ""
    /\ CategoryBlank(last.category)
    /\ DateUnparsable(last.date_str)
    /\ last.error = Raise("ValueError", "Category is required.")

\* C8 as claimed: save_all(load_all()) leaves the records of every backing
\* record load_all accepts unchanged (same records, order, field names, amount
\* and date strings).
C8_ResaveChangesNothing ==
    (last.op = "resave" /\ last.error = NoError /\ last.before.kind = "object")
    => file.transactions = last.before.transactions

FieldNames == {"transaction_id", "user_id", "amount", "category", "occurred_on", "note", "tx_type"}

\* a record with all seven fields whose amount string is the one str(Decimal) writes
Canonical(d) == DOMAIN d = FieldNames /\ DecStr(ParseDecimal(d.amount)) = d.amount

\* C8 amended: save_all(load_all()) leaves the records unchanged when each has
\* all seven fields and the amount string str(Decimal) writes; on any record
\* load_all accepts it keeps the loaded transactions and their order, and a
\* second save_all(load_all()) changes nothing; load_all(save_all(s)) = s.
C8_ResaveCanonicalAndIdempotent ==
    /\ (last.op = "resave" /\ last.error = NoError)
          => /\ load_all_error(file) = NoError
             /\ Store = load_all(last.before)
             /\ save_all(Store) = file
             /\ (\A i \in 1..Size(last.before) : Canonical(last.before.transactions[i]))
                   => file.transactions = last.before.transactions
    /\ last.op = "save_all" => (load_all_error(file) = NoError /\ Store = last.saved)

\* C8 witness: a record without note and tx_type is accepted and rewritten
C8_Witness ==
    /\ last.op = "resave" /\ last.error = NoError
    /\ Size(last.before) = 2
    /\ \E i \in 1..Size(last.before) : ~Has(last.before.transactions[i], "note")
    /\ file.transactions # last.before.transactions

\* the call read a backing record that exists and that load_all cannot parse
LoadFailed ==
    /\ last.op \in {"load_all", "append", "monthly_totals", "add_expense"}
    /\ load_all_error(last.before) # NoError
    /\ last.op = "add_expense"
          => ~FailsValidation(last.amount_str, last.category, last.date_str, last.today)

\* C9: load_all returns the empty sequence when no backing record exists; when
\* the record exists and cannot be parsed, load_all, append, monthly_totals and
\* add_expense fail with the error of load_all, of a kind distinct from the
\* validation errors raised for bad user input (ValueError).
C9_PersistenceErrorDistinct ==
    /\ (last.op = "load_all" /\ last.before.kind = "missing")
          => (last.error = NoError /\ last.loaded = <<>>)
    /\ LoadFailed
          => /\ last.error = load_all_error(last.before)
             /\ ~IsValueError(last.error)

\* C10: both callers have returned, both loaded the same transactions (each
\* loaded before the other saved), and the store holds that snapshot plus one
\* transaction only, the last saver's; and the store never holds a
\* transaction that was not passed to append.
C10_LostUpdate ==
    /\ load_all_error(file) = NoError
    /\ \A i \in 1..Size(file) : \E j \in 1..Len(appended) : Store[i] = appended[j]
    /\ \A p \in Procs, q \in Procs :
          (p # q /\ pc[p] = "returned" /\ pc[q] = "returned"
              /\ snap[p] = snap[q] /\ lastSaver = q)
          => Store = Append(snap[q], arg[q])

\* C10 witness: both appends returned and the first caller's transaction is
\* not in the store
C10_Witness ==
    /\ pc[1] = "returned" /\ pc[2] = "returned"
    /\ snap[1] = snap[2]
    /\ arg[1] # arg[2]
    /\ Len(appended) = 2
    /\ Size(file) = 1
    /\ \A i \in 1..Size(file) : Store[i] # arg[1]

====
